---- MODULE Spec2Model ----
(***************************************************************************)
(* State-machine model of the topaz3 training / evaluation / test-split    *)
(* code.  Python values are modelled as follows: a list is a sequence, an  *)
(* optional value (None or v) is the sequence <<>> or <<v>>, an exception  *)
(* that leaves a function is recorded in `outcome`.                        *)
(***************************************************************************)
EXTENDS Integers, Sequences, FiniteSets, TLC

(* ------------------------------ bounds --------------------------------- *)
MaxFiles == 3
MaxFolds == 3
MaxRuns == 3
MaxSamples == 4
MaxBatch == 3
MaxList == 50
MaxEntries == 3
MaxAttempts == 2
MaxStructures == 2
MaxRepeatList == 3
MaxCalls == 2
MaxPhaseStructs == 2
MaxCC == 2
MaxLength == 4
MaxSlices == 3

(* ------------------------------ state ---------------------------------- *)
\* training pipeline
VARIABLES
  pc,                     \* control point of the modelled function
  stmt,                   \* position inside the body of the run loop
  entry,                  \* "command_line" or "direct" call of pipeline
  args,                   \* the parameters handed in (argv / dict)
  parameters_dict,        \* <<>> until get_pipeline_parameters returned
  train_files,
  training_data_shuffled,
  fold_boundaries,
  k,
  active_training_set,
  active_validation_set,
  folds_used,             \* per run: fold index used and validation rows
  events,                 \* calls made, in order
  output_files,           \* files / directories written under output_dir
  outcome

pipeline_vars ==
  <<pc, stmt, entry, args, parameters_dict, train_files,
    training_data_shuffled, fold_boundaries, k, active_training_set,
    active_validation_set, folds_used, events, output_files, outcome>>

\* DataGenerator
VARIABLES
  list_IDs,               \* key 0 .. N-1 -> sample ID
  batch_size,
  shuffle,
  indexes,                \* self.indexes, a sequence of keys
  epoch_batches           \* batches handed out since the last on_epoch_end

generator_vars == <<list_IDs, batch_size, shuffle, indexes, epoch_batches>>

\* test_split
VARIABLES
  file_list,              \* the argument of test_split
  split_percent,
  rng_state,              \* state of the global generator of `random`
  random_files,           \* what test_split returned
  ts_outcome              \* "ready", "returned" or the exception raised

test_split_vars ==
  <<file_list, split_percent, rng_state, random_files, ts_outcome>>

\* a caller that repeats test_split on the same arguments
VARIABLES
  calls,                  \* how many calls of test_split have returned
  first_call,             \* <<>> or <<r>>: generator state and result of call 1
  other_state             \* the latest call began in another generator state

repeat_vars == <<calls, first_call, other_state>>

\* test_split_directory
VARIABLES
  input_dir,              \* the entries of the input directory, in listing order
  output_dir,             \* the output directory: [name, state] per entry in it
  dir_percent,            \* the split_percent argument
  sd_pc,
  selected_files,
  copied,                 \* new_file_locations so far
  removed,                \* how many selected entries have been removed
  sd_outcome,
  attempt,                \* 1 for the first call, 2 for the call after a failure
  error_fixed,            \* whether the cause of copy errors has been removed
  input_at_call,          \* input_dir when the current call started
  first_selected          \* selected_files of the first call

split_dir_vars ==
  <<input_dir, output_dir, dir_percent, sd_pc, selected_files, copied,
    removed, sd_outcome, attempt, error_fixed, input_at_call, first_selected>>

\* evaluate
VARIABLES
  test_files,             \* glob.glob(test_dir/*): [name, slice] per file
  labels_db,              \* ai_labels: structure name -> Label
  scores,                 \* what the network answers for a slice of a structure
  predictions,            \* one (p0, p1) per test file, in percent
  by_structure,           \* per block: avg and count decision, label
  ev_pc

evaluate_vars ==
  <<test_files, labels_db, scores, predictions, by_structure, ev_pc>>

\* prepare_training_data: the labels database
VARIABLES
  phase_structs,          \* sorted structure names
  lst_files,              \* per structure: the CC in <struct>.lst, <struct>_i.lst
  cc_original_dict,
  cc_inverse_dict,
  cc_next,                \* position of the CC loop in phase_structs
  cc_results,
  ai_training,            \* table ai_training: Name -> row
  ai_labels,              \* table ai_labels: rows [Name, Label]
  pt_pc,
  pt_outcome

labels_vars ==
  <<phase_structs, lst_files, cc_original_dict, cc_inverse_dict, cc_next,
    cc_results, ai_training, ai_labels, pt_pc, pt_outcome>>

\* slice_map
VARIABLES
  volume_shape,           \* volume.shape
  slices_per_axis,
  image_stack,            \* per image: "zeros" or the plane copied into it
  slice,                  \* the loop variable
  sm_pc,
  sm_outcome

slice_vars ==
  <<volume_shape, slices_per_axis, image_stack, slice, sm_pc, sm_outcome>>

vars ==
  <<pipeline_vars, generator_vars, test_split_vars, split_dir_vars,
    evaluate_vars, repeat_vars, labels_vars, slice_vars>>

\* What the operations of one component leave alone.
not_pipeline_vars ==
  <<generator_vars, test_split_vars, split_dir_vars, evaluate_vars,
    repeat_vars, labels_vars, slice_vars>>
not_generator_vars ==
  <<pipeline_vars, test_split_vars, split_dir_vars, evaluate_vars,
    repeat_vars, labels_vars, slice_vars>>
not_test_split_vars ==
  <<pipeline_vars, generator_vars, split_dir_vars, evaluate_vars,
    repeat_vars, labels_vars, slice_vars>>
not_split_dir_vars ==
  <<pipeline_vars, generator_vars, file_list, split_percent,
    random_files, ts_outcome, evaluate_vars, repeat_vars, labels_vars,
    slice_vars>>
not_repeat_vars ==
  <<pipeline_vars, generator_vars, split_dir_vars, evaluate_vars,
    labels_vars, slice_vars>>
not_evaluate_vars ==
  <<pipeline_vars, generator_vars, test_split_vars, split_dir_vars,
    repeat_vars, labels_vars, slice_vars>>
not_labels_vars ==
  <<pipeline_vars, generator_vars, test_split_vars, split_dir_vars,
    evaluate_vars, repeat_vars, slice_vars>>
not_slice_vars ==
  <<pipeline_vars, generator_vars, test_split_vars, split_dir_vars,
    evaluate_vars, repeat_vars, labels_vars>>

(* ------------------------------ helpers -------------------------------- *)
Min(a, b) == IF a < b THEN a ELSE b
Max(a, b) == IF a > b THEN a ELSE b

Range(s) == {s[i] : i \in 1..Len(s)}
Values(f) == {f[x] : x \in DOMAIN f}

Perms(n) == {f \in [1..n -> 1..n] : \A i, j \in 1..n : f[i] = f[j] => i = j}

\* Python truthiness of an optional str / int: None, "" and 0 are false.
TruthyStr(opt) == opt # <<>> /\ opt[1] # ""
TruthyInt(opt) == opt # <<>> /\ opt[1] # 0

\* Python / pandas positional slice s[start:stop] for integer start, stop.
PyIndex(i, len) == IF i < 0 THEN Max(i + len, 0) ELSE Min(i, len)
PySlice(s, start, stop) ==
  SubSeq(s, PyIndex(start, Len(s)) + 1, PyIndex(stop, Len(s)))

(* --------------------------- training pipeline ------------------------- *)
\* k_fold_boundaries(values, folds): equally spaced (lo, hi) pairs that cut
\* the values into `folds` consecutive subsets.
k_fold_boundaries(values, folds) ==
  [i \in 1..folds |->
     <<((i - 1) * Len(values)) \div folds, (i * Len(values)) \div folds>>]

\* assert known_args.k_folds >= known_args.runs
AssertRunsAlwaysPasses(a) == TRUE
AssertRunsLeqFolds(a) == a.k_folds >= a.runs

\* fold_boundaries[k] inside run k
FoldIndexStuck(run) == 0
FoldIndex(run) == run

\* pandas.concat([shuffled[:lo], shuffled[hi:]])
ActiveTrainingSetOverlap(rows, lo, hi) ==
  PySlice(rows, 0, lo) \o PySlice(rows, lo, Len(rows))
ActiveTrainingSet(rows, lo, hi) ==
  PySlice(rows, 0, lo) \o PySlice(rows, hi, Len(rows))

\* shuffled[lo:hi]
ActiveValidationSet(rows, lo, hi) == PySlice(rows, lo, hi)

\* if parameters_dict["test_dir"] and parameters_dict["slices_per_structure"]
EvaluationRequested(p) ==
  TruthyStr(p.test_dir) /\ TruthyInt(p.slices_per_structure)

\* The statements of the body of `for k in range(runs)`, in program order.
RunBodyEvaluateFirst ==
  <<"create_model", "separate_sets", "fit_generator", "history_to_csv",
    "evaluation", "model_save">>
RunBody ==
  <<"create_model", "separate_sets", "fit_generator", "history_to_csv",
    "model_save", "evaluation">>

Params == parameters_dict[1]

Event(op) == [op |-> op, k |-> k]

At(name) == pc = "body" /\ RunBody[stmt] = name

\* Fall through to the next statement of the loop body, or to the next
\* iteration after the last one.
Advance ==
  IF stmt < Len(RunBody)
    THEN /\ stmt' = stmt + 1
         /\ UNCHANGED <<pc, k>>
    ELSE /\ stmt' = 0
         /\ pc' = "for"
         /\ k' = k + 1

Raise(exc) ==
  /\ outcome' = exc
  /\ pc' = "exit"
  /\ stmt' = 0

ArgSpace ==
  [k_folds : 0..MaxFolds, runs : 0..MaxRuns,
   test_dir : {<<>>, <<"test_images">>},
   slices_per_structure : {<<>>, <<60>>}]

PipelineInit ==
  /\ entry \in {"command_line", "direct"}
  /\ args \in ArgSpace
  /\ pc = IF entry = "command_line" THEN "get_pipeline_parameters" ELSE "pipeline"
  /\ parameters_dict = IF entry = "command_line" THEN <<>> ELSE <<args>>
  /\ stmt = 0
  /\ \E n \in 1..MaxFiles : train_files = [i \in 1..n |-> i]
  /\ training_data_shuffled = <<>>
  /\ fold_boundaries = <<>>
  /\ k = 0
  /\ active_training_set = <<>>
  /\ active_validation_set = <<>>
  /\ folds_used = <<>>
  /\ events = <<>>
  /\ output_files = {}
  /\ outcome = "running"

\* get_pipeline_parameters, then pipeline_from_command_line hands the
\* dictionary to pipeline.
get_pipeline_parameters ==
  /\ pc = "get_pipeline_parameters"
  /\ IF AssertRunsLeqFolds(args)
       THEN /\ parameters_dict' = <<args>>
            /\ pc' = "pipeline"
            /\ UNCHANGED <<stmt, outcome>>
       ELSE /\ Raise("AssertionError")
            /\ UNCHANGED parameters_dict
  /\ UNCHANGED <<entry, args, train_files, training_data_shuffled,
                 fold_boundaries, k, active_training_set,
                 active_validation_set, folds_used, events, output_files>>
  /\ UNCHANGED not_pipeline_vars

\* pipeline up to the run loop: the rows are shuffled and the fold
\* boundaries computed once.
pipeline_setup ==
  /\ pc = "pipeline"
  /\ \E p \in Perms(Len(train_files)) :
       training_data_shuffled' = [i \in 1..Len(train_files) |-> train_files[p[i]]]
  /\ fold_boundaries' = k_fold_boundaries(train_files, Params.k_folds)
  /\ k' = 0
  /\ pc' = "for"
  /\ output_files' = output_files \cup {<<"parameters.yaml", 0>>}
  /\ UNCHANGED <<stmt, entry, args, parameters_dict, train_files,
                 active_training_set, active_validation_set, folds_used,
                 events, outcome>>
  /\ UNCHANGED not_pipeline_vars

\* for k in range(runs)
for_k ==
  /\ pc = "for"
  /\ k < Params.runs
  /\ pc' = "body"
  /\ stmt' = 1
  /\ UNCHANGED <<entry, args, parameters_dict, train_files,
                 training_data_shuffled, fold_boundaries, k,
                 active_training_set, active_validation_set, folds_used,
                 events, output_files, outcome>>
  /\ UNCHANGED not_pipeline_vars

create_model ==
  /\ At("create_model")
  /\ events' = Append(events, Event("create_model"))
  /\ Advance
  /\ UNCHANGED <<entry, args, parameters_dict, train_files,
                 training_data_shuffled, fold_boundaries,
                 active_training_set, active_validation_set, folds_used,
                 output_files, outcome>>
  /\ UNCHANGED not_pipeline_vars

separate_sets ==
  /\ At("separate_sets")
  /\ IF FoldIndex(k) + 1 \in DOMAIN fold_boundaries
       THEN LET lo == fold_boundaries[FoldIndex(k) + 1][1]
                hi == fold_boundaries[FoldIndex(k) + 1][2]
            IN /\ active_training_set' =
                    ActiveTrainingSet(training_data_shuffled, lo, hi)
               /\ active_validation_set' =
                    ActiveValidationSet(training_data_shuffled, lo, hi)
               /\ folds_used' =
                    Append(folds_used,
                           [k |-> k, fold |-> FoldIndex(k), lo |-> lo, hi |-> hi,
                            validation |-> Range(ActiveValidationSet(
                                             training_data_shuffled, lo, hi))])
               /\ Advance
               /\ UNCHANGED outcome
       ELSE /\ Raise("IndexError")
            /\ UNCHANGED <<k, active_training_set, active_validation_set,
                           folds_used>>
  /\ UNCHANGED <<entry, args, parameters_dict, train_files,
                 training_data_shuffled, fold_boundaries, events,
                 output_files>>
  /\ UNCHANGED not_pipeline_vars

fit_generator ==
  /\ At("fit_generator")
  /\ events' = Append(events, Event("fit_generator"))
  /\ Advance
  /\ UNCHANGED <<entry, args, parameters_dict, train_files,
                 training_data_shuffled, fold_boundaries,
                 active_training_set, active_validation_set, folds_used,
                 output_files, outcome>>
  /\ UNCHANGED not_pipeline_vars

history_to_csv ==
  /\ At("history_to_csv")
  /\ events' = Append(events, Event("history_to_csv"))
  /\ output_files' = output_files \cup {<<"histories/history", k>>}
  /\ Advance
  /\ UNCHANGED <<entry, args, parameters_dict, train_files,
                 training_data_shuffled, fold_boundaries,
                 active_training_set, active_validation_set, folds_used,
                 outcome>>
  /\ UNCHANGED not_pipeline_vars

model_save ==
  /\ At("model_save")
  /\ events' = Append(events, Event("model_save"))
  /\ output_files' = output_files \cup {<<"models/model", k>>}
  /\ Advance
  /\ UNCHANGED <<entry, args, parameters_dict, train_files,
                 training_data_shuffled, fold_boundaries,
                 active_training_set, active_validation_set, folds_used,
                 outcome>>
  /\ UNCHANGED not_pipeline_vars

\* The evaluation block at the end of a run: evaluate() is called on
\* models/model_k.h5 and writes into evaluations/evaluation_k, or the block
\* only logs that no evaluation is performed.
evaluation ==
  /\ At("evaluation")
  /\ IF EvaluationRequested(Params)
       THEN /\ events' = Append(events, Event("evaluate"))
            /\ output_files' =
                 output_files \cup {<<"evaluations/evaluation", k>>}
       ELSE UNCHANGED <<events, output_files>>
  /\ Advance
  /\ UNCHANGED <<entry, args, parameters_dict, train_files,
                 training_data_shuffled, fold_boundaries,
                 active_training_set, active_validation_set, folds_used,
                 outcome>>
  /\ UNCHANGED not_pipeline_vars

\* After the loop model_info is dumped; it is unbound when the loop body
\* never ran.
after_loop ==
  /\ pc = "for"
  /\ ~(k < Params.runs)
  /\ IF k = 0
       THEN /\ Raise("UnboundLocalError")
            /\ UNCHANGED output_files
       ELSE /\ outcome' = "done"
            /\ pc' = "exit"
            /\ output_files' = output_files \cup {<<"model_info.yaml", 0>>}
            /\ UNCHANGED stmt
  /\ UNCHANGED <<entry, args, parameters_dict, train_files,
                 training_data_shuffled, fold_boundaries, k,
                 active_training_set, active_validation_set, folds_used,
                 events>>
  /\ UNCHANGED not_pipeline_vars

PipelineNext ==
  \/ get_pipeline_parameters
  \/ pipeline_setup
  \/ for_k
  \/ create_model
  \/ separate_sets
  \/ fit_generator
  \/ history_to_csv
  \/ model_save
  \/ evaluation
  \/ after_loop

(* ------------------- properties of the training pipeline --------------- *)
Count(s, x) == Cardinality({i \in DOMAIN s : s[i] = x})

Ops(r) ==
  LET own == SelectSeq(events, LAMBDA e : e.k = r)
  IN [i \in 1..Len(own) |-> own[i].op]

IsPrefix(s, t) == Len(s) <= Len(t) /\ s = SubSeq(t, 1, Len(s))

TrainingRuns == Cardinality({i \in DOMAIN events : events[i].op = "fit_generator"})

LastFold == folds_used[Len(folds_used)]

\* C1: in every run whose fold boundaries satisfy 0 <= lo <= hi <= N, the
\* active training set (rows [0, lo) then rows [hi, N)) and the active
\* validation set (rows [lo, hi)) are disjoint and together hold every
\* shuffled training row exactly once.
C1_FoldsPartitionRows ==
  (folds_used # <<>> /\ 0 <= LastFold.lo /\ LastFold.lo <= LastFold.hi
     /\ LastFold.hi <= Len(training_data_shuffled)) =>
    /\ Range(active_training_set) \cap Range(active_validation_set) = {}
    /\ \A r \in Range(training_data_shuffled) :
         Count(active_training_set \o active_validation_set, r) = 1
    /\ Len(active_training_set) + Len(active_validation_set)
         = Len(training_data_shuffled)
    /\ active_validation_set
         = SubSeq(training_data_shuffled, LastFold.lo + 1, LastFold.hi)

C1_Witness ==
  /\ folds_used # <<>>
  /\ 0 < LastFold.lo
  /\ LastFold.lo < LastFold.hi
  /\ LastFold.hi < Len(training_data_shuffled)
  /\ Len(active_training_set) = 2
  /\ Len(active_validation_set) = 1

RunsOnDistinctFolds ==
  /\ outcome # "IndexError"
  /\ \A i \in DOMAIN folds_used :
       folds_used[i].k = i - 1 /\ folds_used[i].fold = folds_used[i].k
  /\ \A i, j \in DOMAIN folds_used :
       i # j => /\ folds_used[i].fold # folds_used[j].fold
                /\ folds_used[i].validation \cap folds_used[j].validation = {}
  /\ pc = "exit" => TrainingRuns = Params.runs

\* C4 (as amended): when runs <= k_folds, one pipeline call performs exactly
\* `runs` training runs, run k validates on fold k, and no two runs of the
\* call validate on the same fold.
C4_RunsOnDistinctFolds ==
  (parameters_dict # <<>> /\ Params.runs <= Params.k_folds) =>
    RunsOnDistinctFolds

\* C4 as stated, for every pipeline call whatever runs and k_folds are.
C4_AsStated == parameters_dict # <<>> => RunsOnDistinctFolds

C4_Witness ==
  /\ pc = "exit"
  /\ outcome = "done"
  /\ Params.runs = 3
  /\ Len(folds_used) = 3
  /\ folds_used[3].fold = 2

\* C5: from the command line get_pipeline_parameters returns the parameter
\* dictionary exactly when runs <= k_folds and raises AssertionError
\* otherwise, and a pipeline started that way never indexes a fold that
\* does not exist.
C5_RunsLeqFoldsEnforced ==
  entry = "command_line" =>
    /\ parameters_dict # <<>> => (args.runs <= args.k_folds /\ Params = args)
    /\ (pc # "get_pipeline_parameters" /\ args.runs <= args.k_folds)
         => (parameters_dict # <<>> /\ outcome # "AssertionError")
    /\ (pc # "get_pipeline_parameters" /\ args.runs > args.k_folds)
         => (parameters_dict = <<>> /\ outcome = "AssertionError"
             /\ events = <<>> /\ folds_used = <<>>)
    /\ outcome # "IndexError"
    /\ \A i \in DOMAIN folds_used :
         folds_used[i].fold + 1 \in DOMAIN fold_boundaries

C5_Witness ==
  /\ entry = "command_line"
  /\ args.runs > args.k_folds
  /\ outcome = "AssertionError"
  /\ pc = "exit"

Evaluated(r) ==
  /\ \E i \in DOMAIN events : events[i] = [op |-> "evaluate", k |-> r]
  /\ <<"evaluations/evaluation", r>> \in output_files

\* C6: when a test directory is provided the model of every run is
\* evaluated and the result recorded in evaluations/evaluation_k; when none
\* is provided no evaluation is performed.
C6_EvaluatesIffTestDir ==
  (pc = "exit" /\ outcome = "done") =>
    IF TruthyStr(Params.test_dir)
      THEN \A r \in 0..(Params.runs - 1) : Evaluated(r)
      ELSE \A i \in DOMAIN events : events[i].op # "evaluate"

ExpectedOps ==
  <<"create_model", "fit_generator", "history_to_csv", "model_save">>
    \o (IF EvaluationRequested(Params) THEN <<"evaluate">> ELSE <<>>)

\* C7: inside every run k the order is create_model, training, history_k.csv,
\* model_k.h5, and only then (when evaluation is enabled) the evaluation of
\* model_k.h5; evaluation of run k never starts before model_k.h5 is saved,
\* and run k+1 never starts before run k has finished these steps.
C7_RunStepsInOrder ==
  /\ \A i, j \in DOMAIN events : i < j => events[i].k <= events[j].k
  /\ \A i \in DOMAIN events :
       /\ IsPrefix(Ops(events[i].k), ExpectedOps)
       /\ events[i].k > 0 => Ops(events[i].k - 1) = ExpectedOps
       /\ events[i].op = "history_to_csv" =>
            <<"histories/history", events[i].k>> \in output_files
       /\ events[i].op = "evaluate" =>
            /\ <<"models/model", events[i].k>> \in output_files
            /\ \E j \in 1..(i - 1) :
                 events[j] = [op |-> "model_save", k |-> events[i].k]

C7_Witness ==
  /\ \E i \in DOMAIN events : events[i] = [op |-> "evaluate", k |-> 1]
  /\ Ops(0) = ExpectedOps
  /\ Ops(1) = ExpectedOps

(* ------------------------------ DataGenerator -------------------------- *)
\* np.arange(n)
arange(n) == [i \in 1..n |-> i - 1]

\* np.random.shuffle permutes the array in place: any order can result.
Shuffles(s) == {[i \in 1..Len(s) |-> s[p[i]]] : p \in Perms(Len(s))}

\* __len__: int(np.floor(len(list_IDs) / batch_size))
DataGenerator_len_ceil(ids, b) == (Cardinality(DOMAIN ids) + b - 1) \div b
DataGenerator_len(ids, b) == Cardinality(DOMAIN ids) \div b

\* __getitem__: the IDs of indexes[index*batch_size:(index+1)*batch_size]
DataGenerator_getitem(index) ==
  LET idx == PySlice(indexes, index * batch_size, (index + 1) * batch_size)
  IN [i \in 1..Len(idx) |-> list_IDs[idx[i]]]

\* The state an on_epoch_end call can leave self.indexes in.
EpochIndexes(ids, sh) ==
  IF sh THEN Shuffles(arange(Cardinality(DOMAIN ids)))
        ELSE {arange(Cardinality(DOMAIN ids))}

\* __init__ stores its arguments and calls on_epoch_end.
GeneratorInit ==
  /\ \E n \in 0..MaxSamples : list_IDs = [i \in 0..(n - 1) |-> 100 + i]
  /\ batch_size \in 1..MaxBatch
  /\ shuffle \in BOOLEAN
  /\ indexes \in EpochIndexes(list_IDs, shuffle)
  /\ epoch_batches = {}

on_epoch_end ==
  /\ indexes' \in EpochIndexes(list_IDs, shuffle)
  /\ epoch_batches' = {}
  /\ UNCHANGED <<list_IDs, batch_size, shuffle>>
  /\ UNCHANGED not_generator_vars

\* Keras asks a Sequence for the batches 0 .. len-1 of an epoch, in any order.
getitem ==
  /\ \E index \in 0..(DataGenerator_len(list_IDs, batch_size) - 1) :
       epoch_batches' = epoch_batches \cup
         {[index |-> index, batch |-> DataGenerator_getitem(index)]}
  /\ UNCHANGED <<list_IDs, batch_size, shuffle, indexes>>
  /\ UNCHANGED not_generator_vars

GeneratorNext ==
  \/ on_epoch_end
  \/ getitem

\* C3: __len__ is floor(N / b); within one epoch every batch 0 .. floor(N/b)-1
\* holds exactly b samples, no sample is in two batches (or twice in one),
\* and at most b-1 samples are left out of the epoch.
C3_BatchesTileEpoch ==
  LET N == Cardinality(DOMAIN list_IDs)
      L == DataGenerator_len(list_IDs, batch_size)
      all == UNION {Range(DataGenerator_getitem(i)) : i \in 0..(L - 1)}
  IN /\ L * batch_size <= N
     /\ N < (L + 1) * batch_size
     /\ \A r \in epoch_batches :
          /\ Len(r.batch) = batch_size
          /\ Cardinality(Range(r.batch)) = batch_size
          /\ Range(r.batch) \subseteq Values(list_IDs)
          /\ r.batch = DataGenerator_getitem(r.index)
     /\ \A r, q \in epoch_batches :
          r.index # q.index => Range(r.batch) \cap Range(q.batch) = {}
     /\ Cardinality(Values(list_IDs) \ all) <= batch_size - 1

C3_Witness ==
  /\ shuffle
  /\ indexes # arange(Len(indexes))
  /\ batch_size = 2
  /\ \E r, q \in epoch_batches : r.index = 0 /\ q.index = 1 /\ Len(q.batch) = 2



(* ------------------------------- test_split ---------------------------- *)
\* Python floats are IEEE-754 doubles.  A double is modelled exactly, as
\* [bits, e]: the significand's bits, most significant first, and the value
\* bits * 2^(-e).  Every operation rounds to DoublePrecision significant
\* bits, ties to even, as the hardware does.
DoublePrecision == 53

\* The w-bit binary representation of 0 <= v < 2^w, most significant first.
Bits(v, w) == [i \in 1..w |-> (v \div 2^(w - i)) % 2]

BitLen(c) == CHOOSE w \in 0..30 : c < 2^w /\ (w = 0 \/ c >= 2^(w - 1))

IntBits(c) == Bits(c, BitLen(c))

RECURSIVE BitsToInt(_)
BitsToInt(bits) ==
  IF bits = <<>> THEN 0
  ELSE IF Len(bits) = 1 THEN bits[1]
  ELSE LET h == Len(bits) \div 2
       IN BitsToInt(SubSeq(bits, 1, h)) * 2^(Len(bits) - h)
            + BitsToInt(SubSeq(bits, h + 1, Len(bits)))

\* Long arithmetic works on chunks of ChunkBits bits at a time.
ChunkBits == 14

RECURSIVE FracBits(_, _, _)
\* The next cnt bits of the binary expansion of r / d (0 <= r < d < 2^14),
\* and the remainder left after them.
FracBits(r, d, cnt) ==
  IF cnt = 0
    THEN [bits |-> <<>>, rem |-> r]
    ELSE LET w == Min(cnt, ChunkBits)
             rest == FracBits((r * 2^w) % d, d, cnt - w)
         IN [bits |-> Bits((r * 2^w) \div d, w) \o rest.bits, rem |-> rest.rem]

\* How many leading zero bits the binary expansion of r / d has (0 < r < d).
LeadingZeros(r, d) ==
  CHOOSE z \in 0..ChunkBits :
    /\ 2 * r * 2^z >= d
    /\ \A y \in 0..(z - 1) : 2 * r * 2^y < d

Inc(bits) ==
  LET zeros == {i \in 1..Len(bits) : bits[i] = 0}
  IN IF zeros = {}
       THEN <<1>> \o [i \in 1..Len(bits) |-> 0]
       ELSE LET j == CHOOSE i \in zeros : \A m \in zeros : m <= i
            IN [i \in 1..Len(bits) |->
                  IF i < j THEN bits[i] ELSE IF i = j THEN 1 ELSE 0]

\* Round to nearest, ties to even; cmp is the sign of (dropped part - 1/2 ulp).
RoundHalfEven(bits, cmp) ==
  IF cmp > 0 \/ (cmp = 0 /\ bits[Len(bits)] = 1) THEN Inc(bits) ELSE bits

StripZeros(bits) ==
  LET ones == {i \in 1..Len(bits) : bits[i] = 1}
  IN IF ones = {}
       THEN <<>>
       ELSE SubSeq(bits, CHOOSE i \in ones : \A m \in ones : i <= m, Len(bits))

RECURSIVE MulBits(_, _, _)
\* The bits of bits * n + carry, for an integer 0 <= n < 2^16.
MulBits(bits, n, carry) ==
  IF bits = <<>>
    THEN IntBits(carry)
    ELSE LET w == Min(Len(bits), ChunkBits)
             v == BitsToInt(SubSeq(bits, Len(bits) - w + 1, Len(bits))) * n + carry
         IN MulBits(SubSeq(bits, 1, Len(bits) - w), n, v \div 2^w)
              \o Bits(v % 2^w, w)

\* The double p / q for integers 0 <= p <= q <= 100 (Python's true division).
FloatDiv(p, q) ==
  IF p = 0
    THEN [bits |-> <<>>, e |-> 0]
    ELSE LET d == 128 * q
             z == LeadingZeros(p, d)
             fb == FracBits(p * 2^z, d, DoublePrecision)
             cmp == IF 2 * fb.rem > d THEN 1 ELSE IF 2 * fb.rem = d THEN 0 ELSE -1
         IN [bits |-> RoundHalfEven(fb.bits, cmp), e |-> z + DoublePrecision - 7]

\* The double n * x for a small integer n >= 0 and a double x.
FloatMulInt(n, x) ==
  LET prod == StripZeros(MulBits(x.bits, n, 0))
  IN IF Len(prod) > DoublePrecision
       THEN LET t == Len(prod) - DoublePrecision
                top == SubSeq(prod, 1, DoublePrecision)
                rest == SubSeq(prod, DoublePrecision + 1, Len(prod))
                cmp == IF rest[1] = 0 THEN -1
                       ELSE IF \A i \in 2..Len(rest) : rest[i] = 0 THEN 0 ELSE 1
            IN [bits |-> RoundHalfEven(top, cmp), e |-> x.e - t]
       ELSE [bits |-> prod, e |-> x.e]

\* int(x): truncation of a double 0 <= x < 2^31.
FloatToInt(x) == BitsToInt(SubSeq(x.bits, 1, Len(x.bits) - x.e))

\* split_num = int(len(file_list) * (split_percent / 100))
SplitNumExact(n, percent) == (n * percent) \div 100
SplitNum(n, percent) == FloatToInt(FloatMulInt(n, FloatDiv(percent, 100)))

\* The generator of the `random` module: a fixed deterministic sequence from
\* the seeded state (a linear congruential stand-in for its Mersenne Twister).
RngModulus == 16
RngSeed == 9
seed(a) == a % RngModulus
RngNext(s) == (5 * s + 3) % RngModulus
randbelow(s, n) == s % n

RECURSIVE SampleWithRepeats(_, _, _)
SampleWithRepeats(pool, cnt, s) ==
  IF cnt = 0
    THEN [result |-> <<>>, rng |-> s]
    ELSE LET s1 == RngNext(s)
             j == randbelow(s1, Len(pool)) + 1
             rest == SampleWithRepeats(pool, cnt - 1, s1)
         IN [result |-> <<pool[j]>> \o rest.result, rng |-> rest.rng]

RECURSIVE Sample(_, _, _)
\* random.sample(population, k) from generator state s: k times, draw a
\* position of the pool, take its entry and move the pool's last entry
\* into its place.
Sample(pool, cnt, s) ==
  IF cnt = 0
    THEN [result |-> <<>>, rng |-> s]
    ELSE LET n == Len(pool)
             s1 == RngNext(s)
             j == randbelow(s1, n) + 1
             rest == Sample(SubSeq([pool EXCEPT ![j] = pool[n]], 1, n - 1),
                            cnt - 1, s1)
         IN [result |-> <<pool[j]>> \o rest.result, rng |-> rest.rng]

\* test_split with the generator left as the caller found it (no
\* random.seed): the sample starts from the state s of the call.
TestSplitUnseeded(files, percent, s) ==
  LET split_num == SplitNum(Len(files), percent)
  IN IF ~(split_num > 0)
       THEN [outcome |-> "AssertionError", files |-> <<>>, rng |-> s]
       ELSE LET drawn == Sample(files, split_num, s)
            IN [outcome |-> "returned", files |-> drawn.result, rng |-> drawn.rng]

\* test_split(file_list, split_percent) called with the generator in state s.
TestSplit(files, percent, s) ==
  LET split_num == SplitNum(Len(files), percent)
  IN IF ~(split_num > 0)
       THEN [outcome |-> "AssertionError", files |-> <<>>, rng |-> s]
       ELSE LET drawn == Sample(files, split_num, seed(RngSeed))
            IN [outcome |-> "returned", files |-> drawn.result, rng |-> drawn.rng]

Percents == 0..100

TestSplitInit ==
  /\ \E n \in 0..MaxList : file_list = [i \in 1..n |-> i]
  /\ split_percent \in Percents
  /\ rng_state = 0
  /\ random_files = <<>>
  /\ ts_outcome = "ready"

\* Any other use of the global generator before the call.
random_draw ==
  /\ ts_outcome = "ready"
  /\ rng_state' = RngNext(rng_state)
  /\ UNCHANGED <<file_list, split_percent, random_files, ts_outcome>>
  /\ UNCHANGED not_test_split_vars

test_split ==
  /\ ts_outcome = "ready"
  /\ LET r == TestSplit(file_list, split_percent, rng_state)
     IN /\ ts_outcome' = r.outcome
        /\ random_files' = r.files
        /\ rng_state' = r.rng
  /\ UNCHANGED <<file_list, split_percent>>
  /\ UNCHANGED not_test_split_vars

TestSplitNext ==
  \/ random_draw
  \/ test_split

\* C10: for n distinct entries and an integer percentage p, test_split returns
\* exactly floor(n * p / 100) entries, all from the input list and pairwise
\* distinct, and raises AssertionError when that number is 0.
C10_ExactFloorWithoutReplacement ==
  LET want == (Len(file_list) * split_percent) \div 100
  IN ts_outcome # "ready" =>
       IF want = 0
         THEN ts_outcome = "AssertionError"
         ELSE /\ ts_outcome = "returned"
              /\ Len(random_files) = want
              /\ Range(random_files) \subseteq Range(file_list)
              /\ Cardinality(Range(random_files)) = Len(random_files)

(* ---------------------- test_split called repeatedly ------------------- *)
RepeatPercents == {0, 50, 100}

RepeatInit ==
  /\ \E n \in 0..MaxRepeatList : file_list = [i \in 1..n |-> i]
  /\ split_percent \in RepeatPercents
  /\ rng_state = 0
  /\ random_files = <<>>
  /\ ts_outcome = "ready"
  /\ calls = 0
  /\ first_call = <<>>
  /\ other_state = FALSE

\* Any other use of the global generator, before or between the calls.
draw_between_calls ==
  /\ rng_state' = RngNext(rng_state)
  /\ UNCHANGED <<file_list, split_percent, random_files, ts_outcome>>
  /\ UNCHANGED repeat_vars
  /\ UNCHANGED not_repeat_vars

\* One more call test_split(file_list, split_percent), same arguments.
call_test_split ==
  /\ calls < MaxCalls + 1
  /\ LET r == TestSplit(file_list, split_percent, rng_state)
     IN /\ ts_outcome' = r.outcome
        /\ random_files' = r.files
        /\ rng_state' = r.rng
        /\ first_call' =
             IF calls = 0
               THEN <<[rng |-> rng_state, outcome |-> r.outcome,
                       files |-> r.files]>>
               ELSE first_call
  /\ other_state' = (calls > 0 /\ first_call[1].rng # rng_state)
  /\ calls' = calls + 1
  /\ UNCHANGED <<file_list, split_percent>>
  /\ UNCHANGED not_repeat_vars

RepeatNext ==
  \/ draw_between_calls
  \/ call_test_split

\* C11: every call of test_split with the same file list and the same
\* split_percent returns what the first call returned (same outcome, same
\* entries in the same order), whatever the state of the random generator
\* was when the call began.
C11_SameSelectionEveryCall ==
  calls > 0 =>
    /\ ts_outcome = first_call[1].outcome
    /\ random_files = first_call[1].files

\* A later call that began in another generator state than the first and
\* selected a proper, non-empty part of the list.
C11_Witness ==
  /\ calls > 1
  /\ other_state
  /\ ts_outcome = "returned"
  /\ Len(random_files) > 0
  /\ Len(random_files) < Len(file_list)

(* --------------------------- test_split_directory ---------------------- *)
Suffixes == {"", ".png", ".txt"}
DirPercents == {34, 67, 100}

EntryKinds == [is_dir : BOOLEAN, suffix : Suffixes]

InOutput(name) == \E e \in output_dir : e.name = name

\* The output directory after `name` was written there in state st.
Written(name, st) ==
  {e \in output_dir : e.name # name} \cup {[name |-> name, state |-> st]}

Without(s, x) == SelectSeq(s, LAMBDA e : e # x)

\* The asserts on the listing without the one on the file extensions.
ListingAcceptedAnySuffix(input_files) ==
  /\ Len(input_files) > 0
  /\ LET all_directories == {input_files[i].is_dir : i \in 1..Len(input_files)}
     IN all_directories = {TRUE} \/ all_directories = {FALSE}

\* The asserts on the listing of the input directory.
ListingAccepted(input_files) ==
  /\ Len(input_files) > 0
  /\ LET all_directories == {input_files[i].is_dir : i \in 1..Len(input_files)}
     IN all_directories = {TRUE} \/ all_directories = {FALSE}
  /\ Cardinality({input_files[i].suffix : i \in 1..Len(input_files)}) = 1

\* Path(selected_files[0]).is_dir()
DirectoryMode == selected_files[1].is_dir

\* The copy call has returned: every selected entry was copied.
CopiesCompletedEarly == Len(copied) >= 1
CopiesCompleted == Len(copied) = Len(selected_files)

NextToCopy == selected_files[Len(copied) + 1]

SplitDirInit ==
  /\ \E n \in 0..MaxEntries :
       \E kinds \in [1..n -> EntryKinds] :
         input_dir = [i \in 1..n |->
                        [name |-> i, is_dir |-> kinds[i].is_dir,
                         suffix |-> kinds[i].suffix]]
  /\ output_dir = {}
  /\ dir_percent \in DirPercents
  /\ sd_pc = "start"
  /\ selected_files = <<>>
  /\ copied = <<>>
  /\ removed = 0
  /\ sd_outcome = "running"
  /\ attempt = 1
  /\ error_fixed = FALSE
  /\ input_at_call = input_dir
  /\ first_selected = <<>>
  /\ rng_state = 0

SdRaise(exc) ==
  /\ sd_outcome' = exc
  /\ sd_pc' = "exit"

\* test_split_directory up to the choice of the copy function: the listing
\* is checked and test_split selects from it.
split_begin ==
  /\ sd_pc = "start"
  /\ IF ~ListingAccepted(input_dir)
       THEN /\ SdRaise("AssertionError")
            /\ UNCHANGED <<selected_files, first_selected, rng_state>>
       ELSE LET r == TestSplit(input_dir, dir_percent, rng_state)
            IN IF r.outcome = "AssertionError"
                 THEN /\ SdRaise("AssertionError")
                      /\ UNCHANGED <<selected_files, first_selected, rng_state>>
                 ELSE /\ selected_files' = r.files
                      /\ first_selected' =
                           IF attempt = 1 THEN r.files ELSE first_selected
                      /\ rng_state' = r.rng
                      /\ sd_pc' = "copy"
                      /\ UNCHANGED sd_outcome
  /\ UNCHANGED <<input_dir, output_dir, dir_percent, copied, removed, attempt,
                 error_fixed, input_at_call>>
  /\ UNCHANGED not_split_dir_vars

\* copy_files: shutil.copy of the next selected file; a file already at the
\* destination is overwritten.
copy_file ==
  /\ sd_pc = "copy"
  /\ ~DirectoryMode
  /\ ~CopiesCompleted
  /\ output_dir' = Written(NextToCopy.name, "complete")
  /\ copied' = Append(copied, NextToCopy.name)
  /\ UNCHANGED <<input_dir, dir_percent, sd_pc, selected_files, removed,
                 sd_outcome, attempt, error_fixed, input_at_call,
                 first_selected, rng_state>>
  /\ UNCHANGED not_split_dir_vars

\* shutil.copy raises OSError; the destination file may have been created.
copy_file_fails ==
  /\ sd_pc = "copy"
  /\ ~DirectoryMode
  /\ ~CopiesCompleted
  /\ ~error_fixed
  /\ output_dir' \in {output_dir, Written(NextToCopy.name, "partial")}
  /\ SdRaise("OSError")
  /\ UNCHANGED <<input_dir, dir_percent, selected_files, copied, removed,
                 attempt, error_fixed, input_at_call, first_selected,
                 rng_state>>
  /\ UNCHANGED not_split_dir_vars

\* copy_directories: shutil.copytree of the next selected directory to
\* destination / name, which must not exist yet.
copytree ==
  /\ sd_pc = "copy"
  /\ DirectoryMode
  /\ ~CopiesCompleted
  /\ ~InOutput(NextToCopy.name)
  /\ output_dir' = Written(NextToCopy.name, "complete")
  /\ copied' = Append(copied, NextToCopy.name)
  /\ UNCHANGED <<input_dir, dir_percent, sd_pc, selected_files, removed,
                 sd_outcome, attempt, error_fixed, input_at_call,
                 first_selected, rng_state>>
  /\ UNCHANGED not_split_dir_vars

\* shutil.copytree finds something at the destination path.
copytree_exists ==
  /\ sd_pc = "copy"
  /\ DirectoryMode
  /\ ~CopiesCompleted
  /\ InOutput(NextToCopy.name)
  /\ SdRaise("FileExistsError")
  /\ UNCHANGED <<input_dir, output_dir, dir_percent, selected_files, copied,
                 removed, attempt, error_fixed, input_at_call, first_selected,
                 rng_state>>
  /\ UNCHANGED not_split_dir_vars

\* shutil.copytree raises OSError, before or after it made the destination.
copytree_fails ==
  /\ sd_pc = "copy"
  /\ DirectoryMode
  /\ ~CopiesCompleted
  /\ ~InOutput(NextToCopy.name)
  /\ ~error_fixed
  /\ output_dir' \in {output_dir, Written(NextToCopy.name, "partial")}
  /\ SdRaise("OSError")
  /\ UNCHANGED <<input_dir, dir_percent, selected_files, copied, removed,
                 attempt, error_fixed, input_at_call, first_selected,
                 rng_state>>
  /\ UNCHANGED not_split_dir_vars

\* The copy function returns and the removal loop starts.
copies_return ==
  /\ sd_pc = "copy"
  /\ CopiesCompleted
  /\ sd_pc' = "remove"
  /\ UNCHANGED <<input_dir, output_dir, dir_percent, selected_files, copied,
                 removed, sd_outcome, attempt, error_fixed, input_at_call,
                 first_selected, rng_state>>
  /\ UNCHANGED not_split_dir_vars

\* shutil.rmtree(directory) / os.remove(file) of the next selected entry.
remove_entry ==
  /\ sd_pc = "remove"
  /\ removed < Len(selected_files)
  /\ input_dir' = Without(input_dir, selected_files[removed + 1])
  /\ removed' = removed + 1
  /\ UNCHANGED <<output_dir, dir_percent, sd_pc, selected_files, copied,
                 sd_outcome, attempt, error_fixed, input_at_call,
                 first_selected, rng_state>>
  /\ UNCHANGED not_split_dir_vars

\* return copied_file_locations
split_return ==
  /\ sd_pc = "remove"
  /\ removed = Len(selected_files)
  /\ sd_outcome' = "done"
  /\ sd_pc' = "exit"
  /\ UNCHANGED <<input_dir, output_dir, dir_percent, selected_files, copied,
                 removed, attempt, error_fixed, input_at_call, first_selected,
                 rng_state>>
  /\ UNCHANGED not_split_dir_vars

\* After an error during copying the cause is fixed and the function is
\* called again with the same parameters.
run_again ==
  /\ sd_pc = "exit"
  /\ sd_outcome = "OSError"
  /\ attempt < MaxAttempts
  /\ attempt' = attempt + 1
  /\ error_fixed' = TRUE
  /\ sd_pc' = "start"
  /\ sd_outcome' = "running"
  /\ selected_files' = <<>>
  /\ copied' = <<>>
  /\ removed' = 0
  /\ input_at_call' = input_dir
  /\ UNCHANGED <<input_dir, output_dir, dir_percent, first_selected, rng_state>>
  /\ UNCHANGED not_split_dir_vars

SplitDirNext ==
  \/ split_begin
  \/ copy_file
  \/ copy_file_fails
  \/ copytree
  \/ copytree_exists
  \/ copytree_fails
  \/ copies_return
  \/ remove_entry
  \/ split_return
  \/ run_again

RemovedFromInput == Range(input_at_call) \ Range(input_dir)

\* C8: no selected file or directory is removed from the input directory
\* until every selected entry has been copied to the output directory, and
\* when a copy fails nothing is deleted from the input directory.
C8_CopyAllBeforeDelete ==
  /\ RemovedFromInput # {} =>
       /\ Len(copied) = Len(selected_files)
       /\ \A i \in 1..Len(selected_files) :
            [name |-> selected_files[i].name, state |-> "complete"] \in output_dir
       /\ RemovedFromInput \subseteq Range(selected_files)
  /\ sd_outcome \in {"OSError", "FileExistsError"} => input_dir = input_at_call

C8_Witness ==
  /\ sd_pc = "remove"
  /\ Len(selected_files) = 2
  /\ removed = 1
  /\ Cardinality(RemovedFromInput) = 1
  /\ attempt = 1

\* C9: after an error during copying a second run with the same parameters,
\* for files and for directories alike, selects the same entries and
\* completes the split although some entries were copied by the failed run.
C9_RerunCompletes ==
  attempt = 2 =>
    /\ sd_pc # "start" => selected_files = first_selected
    /\ sd_pc = "exit" => sd_outcome = "done"

\* The listings the documentation rules out.
Empty(listing) == Len(listing) = 0
Mixture(listing) ==
  \E i, j \in 1..Len(listing) : listing[i].is_dir /\ ~listing[j].is_dir
SeveralExtensions(listing) ==
  \E i, j \in 1..Len(listing) :
    /\ ~listing[i].is_dir
    /\ ~listing[j].is_dir
    /\ listing[i].suffix # listing[j].suffix

\* C12: a call of test_split_directory on an input directory that is empty,
\* mixes files and directories, or holds files of more than one extension
\* ends in AssertionError with nothing copied to the output directory and
\* nothing removed from the input directory.
C12_BadListingRejected ==
  (sd_pc # "start"
     /\ \/ Empty(input_at_call)
        \/ Mixture(input_at_call)
        \/ SeveralExtensions(input_at_call)) =>
    /\ sd_pc = "exit"
    /\ sd_outcome = "AssertionError"
    /\ selected_files = <<>>
    /\ copied = <<>>
    /\ removed = 0
    /\ output_dir = {}
    /\ input_dir = input_at_call

\* A rejected directory of three files of which two extensions differ.
C12_Witness ==
  /\ sd_pc = "exit"
  /\ sd_outcome = "AssertionError"
  /\ Len(input_at_call) = 3
  /\ ~Mixture(input_at_call)
  /\ SeveralExtensions(input_at_call)
  /\ input_dir = input_at_call

(* -------------------------------- evaluate ----------------------------- *)
\* test_batch_size = 60, and the 60 of the per structure analysis
test_batch_size == 60
StructureBlock == 60

\* The images of one structure: name_1 .. name_60.
SlicesOf(name) == {[name |-> name, slice |-> j] : j \in 1..StructureBlock}

\* The listing with the files of each structure together, structures in
\* the order `order`.
Grouped(order) ==
  [i \in 1..(Len(order) * StructureBlock) |->
     [name |-> order[((i - 1) \div StructureBlock) + 1],
      slice |-> ((i - 1) % StructureBlock) + 1]]

\* The listing that goes round the structures slice by slice.
Interleaved(order) ==
  [i \in 1..(Len(order) * StructureBlock) |->
     [name |-> order[((i - 1) % Len(order)) + 1],
      slice |-> ((i - 1) \div Len(order)) + 1]]

Swapped(s, i, j) == [s EXCEPT ![i] = s[j], ![j] = s[i]]

\* glob.glob returns the files in the directory's own order, which is
\* arbitrary: these listings stand for it.
Listings(n) ==
  LET orders == {[i \in 1..n |-> p[i]] : p \in Perms(n)}
      places == {1, StructureBlock, n * StructureBlock}
                  \cup (IF n > 1 THEN {StructureBlock + 1} ELSE {})
  IN UNION {{Interleaved(o)} \cup {Swapped(Grouped(o), i, j) : i, j \in places}
            : o \in orders}

\* Sum of a sequence of numbers.
RECURSIVE SumOver(_, _)
SumOver(s, values) ==
  IF values = {} THEN 0
  ELSE LET v == CHOOSE x \in values : TRUE
       IN v * Count(s, v) + SumOver(s, values \ {v})
Sum(s) == SumOver(s, Range(s))

Column(rows, c) == [i \in 1..Len(rows) |-> rows[i][c]]

\* int(np.mean(block[:, 1]) > 0.5), the predictions being in percent
AverageDecision(block) ==
  IF 2 * Sum(Column(block, 2)) > 100 * Len(block) THEN 1 ELSE 0

\* int(np.sum(by_result[:, 1]) / 60 > 0.5)
CountDecision(block) ==
  LET by_result == [i \in 1..Len(block) |-> IF block[i][2] > block[i][1] THEN 1 ELSE 0]
  IN IF 2 * Sum(by_result) > StructureBlock THEN 1 ELSE 0

\* rows[60 * i : 60 * i + 60], i counted from 0
Block(rows, i) == PySlice(rows, StructureBlock * i, StructureBlock * i + StructureBlock)

EvaluateInit ==
  /\ \E n \in 1..MaxStructures :
       /\ test_files \in Listings(n)
       /\ labels_db \in [1..n -> {0, 1}]
       /\ scores \in [1..n -> {20, 80}]
  /\ predictions = <<>>
  /\ by_structure = <<>>
  /\ ev_pc = "predict"

\* model.predict_generator over int(len / 60) batches of 60, unshuffled.
predict_generator ==
  /\ ev_pc = "predict"
  /\ LET steps == Len(test_files) \div test_batch_size
     IN predictions' =
          [i \in 1..(steps * test_batch_size) |->
             <<100 - scores[test_files[i].name], scores[test_files[i].name]>>]
  /\ ev_pc' = "per_structure"
  /\ UNCHANGED <<test_files, labels_db, scores, by_structure>>
  /\ UNCHANGED not_evaluate_vars

\* The per structure analysis: block i of 60 predictions against labels[60 * i].
per_structure ==
  /\ ev_pc = "per_structure"
  /\ by_structure' =
       [b \in 1..(Len(predictions) \div StructureBlock) |->
          [avg |-> AverageDecision(Block(predictions, b - 1)),
           count |-> CountDecision(Block(predictions, b - 1)),
           label |-> labels_db[test_files[StructureBlock * (b - 1) + 1].name]]]
  /\ ev_pc' = "done"
  /\ UNCHANGED <<test_files, labels_db, scores, predictions>>
  /\ UNCHANGED not_evaluate_vars

EvaluateNext ==
  \/ predict_generator
  \/ per_structure

\* The predictions of the slices of one structure, wherever they are listed.
OwnPredictions(name) ==
  LET own == SelectSeq(test_files, LAMBDA f : f.name = name)
  IN [i \in 1..Len(own) |-> <<100 - scores[name], scores[name]>>]

\* C2: for every structure of the test set, whatever order the files are
\* listed in, one block of 60 consecutive predictions holds exactly that
\* structure's slices, its decisions by average and by count are computed
\* from them, and they are compared against that structure's own label.
C2_AggregatesPerStructure ==
  ev_pc = "done" =>
    \A name \in DOMAIN labels_db :
      \E b \in DOMAIN by_structure :
        /\ Range(Block(test_files, b - 1)) = SlicesOf(name)
        /\ by_structure[b].avg = AverageDecision(OwnPredictions(name))
        /\ by_structure[b].count = CountDecision(OwnPredictions(name))
        /\ by_structure[b].label = labels_db[name]

(* ------------------ prepare_training_data: CC and labels --------------- *)
\* What get_cc finds in a .lst file: <<>> when the file has no "with CC"
\* line, else <<cc>> (the CC counted in steps of the bound).
CCs == {<<>>} \cup {<<v>> : v \in 0..MaxCC}

\* The two score columns of a row of cc_results.
Scores(cc_original, cc_inverse) ==
  [original_score |-> cc_original > cc_inverse,
   inverse_score |-> cc_original < cc_inverse]

\* A row left in ai_training by an earlier run.
EarlierRow ==
  [original_cc |-> 0, inverse_cc |-> 1,
   original_score |-> FALSE, inverse_score |-> TRUE]

LabelsInit ==
  /\ \E n \in 0..MaxPhaseStructs :
       /\ phase_structs = [i \in 1..n |-> i]
       /\ lst_files \in [1..n -> [original : CCs, inverse : CCs]]
  /\ cc_original_dict = <<>>
  /\ cc_inverse_dict = <<>>
  /\ cc_next = 1
  /\ cc_results = <<>>
  /\ ai_training \in {<<>>, 1 :> EarlierRow}
  /\ ai_labels = {}
  /\ pt_pc = "collect"
  /\ pt_outcome = "running"

\* One pass of the CC loop: get_cc of the original hand, then of the inverse
\* hand; get_cc raises when the file holds no CC, and the loop only logs it.
collect_cc ==
  /\ pt_pc = "collect"
  /\ cc_next <= Len(phase_structs)
  /\ LET struct == phase_structs[cc_next]
         lst == lst_files[cc_next]
     IN IF lst.original = <<>>
          THEN UNCHANGED <<cc_original_dict, cc_inverse_dict>>
          ELSE /\ cc_original_dict' =
                    (struct :> lst.original[1]) @@ cc_original_dict
               /\ IF lst.inverse = <<>>
                    THEN UNCHANGED cc_inverse_dict
                    ELSE cc_inverse_dict' =
                           (struct :> lst.inverse[1]) @@ cc_inverse_dict
  /\ cc_next' = cc_next + 1
  /\ UNCHANGED <<phase_structs, lst_files, cc_results, ai_training, ai_labels,
                 pt_pc, pt_outcome>>
  /\ UNCHANGED not_labels_vars

\* The list of results; a structure whose CC was not collected is a KeyError.
generate_results ==
  /\ pt_pc = "collect"
  /\ cc_next > Len(phase_structs)
  /\ IF \E i \in 1..Len(phase_structs) :
          \/ phase_structs[i] \notin DOMAIN cc_original_dict
          \/ phase_structs[i] \notin DOMAIN cc_inverse_dict
       THEN /\ pt_outcome' = "KeyError"
            /\ pt_pc' = "exit"
            /\ UNCHANGED cc_results
       ELSE /\ cc_results' =
                 [i \in 1..Len(phase_structs) |->
                    LET struct == phase_structs[i]
                        sc == Scores(cc_original_dict[struct],
                                     cc_inverse_dict[struct])
                    IN <<struct, cc_original_dict[struct],
                         cc_inverse_dict[struct], sc.original_score,
                         sc.inverse_score>>]
            /\ pt_pc' = "training_database"
            /\ UNCHANGED pt_outcome
  /\ UNCHANGED <<phase_structs, lst_files, cc_original_dict, cc_inverse_dict,
                 cc_next, ai_training, ai_labels>>
  /\ UNCHANGED not_labels_vars

\* REPLACE INTO ai_training of every result.
prepare_training_database ==
  /\ pt_pc = "training_database"
  /\ IF ~(Len(cc_results) > 0)
       THEN /\ pt_outcome' = "AssertionError"
            /\ pt_pc' = "exit"
            /\ UNCHANGED ai_training
       ELSE /\ ai_training' =
                 [name \in DOMAIN ai_training
                             \cup {cc_results[i][1] : i \in DOMAIN cc_results} |->
                    IF \E i \in DOMAIN cc_results : cc_results[i][1] = name
                      THEN LET r == cc_results[CHOOSE i \in DOMAIN cc_results :
                                                 cc_results[i][1] = name]
                           IN [original_cc |-> r[2], inverse_cc |-> r[3],
                               original_score |-> r[4], inverse_score |-> r[5]]
                      ELSE ai_training[name]]
            /\ pt_pc' = "labels_database"
            /\ UNCHANGED pt_outcome
  /\ UNCHANGED <<phase_structs, lst_files, cc_original_dict, cc_inverse_dict,
                 cc_next, cc_results, ai_labels>>
  /\ UNCHANGED not_labels_vars

\* ai_labels rebuilt from ai_training: Name with original_score, Name_i with
\* inverse_score.
prepare_labels_database ==
  /\ pt_pc = "labels_database"
  /\ ai_labels' =
       {[Name |-> <<name, "">>, Label |-> ai_training[name].original_score] :
          name \in DOMAIN ai_training}
       \cup
       {[Name |-> <<name, "_i">>, Label |-> ai_training[name].inverse_score] :
          name \in DOMAIN ai_training}
  /\ pt_pc' = "exit"
  /\ pt_outcome' = "done"
  /\ UNCHANGED <<phase_structs, lst_files, cc_original_dict, cc_inverse_dict,
                 cc_next, cc_results, ai_training>>
  /\ UNCHANGED not_labels_vars

LabelsNext ==
  \/ collect_cc
  \/ generate_results
  \/ prepare_training_database
  \/ prepare_labels_database

LabelOf(name, hand) ==
  (CHOOSE row \in ai_labels : row.Name = <<name, hand>>).Label

\* C13: when prepare_training_data has stored the labels, every structure
\* has exactly one of its two hands labelled correct, and the hand labelled
\* correct has the higher CC.
C13_HigherCCLabelledCorrect ==
  pt_outcome = "done" =>
    \A i \in 1..Len(phase_structs) :
      LET original == LabelOf(phase_structs[i], "")
          inverse == LabelOf(phase_structs[i], "_i")
          cc_original == lst_files[i].original[1]
          cc_inverse == lst_files[i].inverse[1]
      IN /\ original # inverse
         /\ original => cc_original > cc_inverse
         /\ inverse => cc_inverse > cc_original

(* -------------------------------- slice_map ---------------------------- *)
\* int(a / b) for integers a >= 0, b > 0: the quotient is rounded to a double
\* before it is truncated.  With q = a div b taking BitLen(q) of the 53
\* bits, the fraction keeps m bits and rounds up to the next integer only
\* when the remainder is within 2^-(m+1) of b.
IntOfQuotient(a, b) ==
  LET q == a \div b
      r == a % b
      m == DoublePrecision - BitLen(q)
  IN IF r > 0 /\ m + 1 < 31 /\ (b - r) * 2^(m + 1) <= b THEN q + 1 ELSE q

\* Slices spread over the whole side: (slice + 1) * length / (s + 1).
SlicePositionSpread(length, s, sl) == ((sl + 1) * length) \div (s + 1)

\* (slice + 1) * int((length) / (slices_per_axis + 1))
SlicePosition(length, s, sl) == (sl + 1) * IntOfQuotient(length, s + 1)

Shapes == [1..3 -> 1..MaxLength]

SliceInit ==
  /\ volume_shape \in Shapes
  /\ slices_per_axis \in 0..MaxSlices
  /\ image_stack = <<>>
  /\ slice = 0
  /\ sm_pc = "assert"
  /\ sm_outcome = "running"

\* The assert on the shape and the allocation of the stack of zeros.
slice_map_begin ==
  /\ sm_pc = "assert"
  /\ IF volume_shape[1] = volume_shape[2] /\ volume_shape[2] = volume_shape[3]
       THEN /\ image_stack' = [i \in 1..(slices_per_axis * 3) |-> "zeros"]
            /\ sm_pc' = "x"
            /\ UNCHANGED sm_outcome
       ELSE /\ sm_outcome' = "AssertionError"
            /\ sm_pc' = "exit"
            /\ UNCHANGED image_stack
  /\ UNCHANGED <<volume_shape, slices_per_axis, slice>>
  /\ UNCHANGED not_slice_vars

\* One pass of the loop of axis `axis`, which writes at `offset + slice`,
\* or the end of that loop.
SliceLoop(axis, offset, after) ==
  /\ IF slice < slices_per_axis
       THEN /\ image_stack' =
                 [image_stack EXCEPT ![slice + offset + 1] =
                    [axis |-> axis,
                     index |-> SlicePosition(volume_shape[1],
                                             slices_per_axis, slice)]]
            /\ slice' = slice + 1
            /\ UNCHANGED <<sm_pc, sm_outcome>>
       ELSE /\ slice' = 0
            /\ sm_pc' = after
            /\ sm_outcome' = IF after = "exit" THEN "returned" ELSE sm_outcome
            /\ UNCHANGED image_stack
  /\ UNCHANGED <<volume_shape, slices_per_axis>>
  /\ UNCHANGED not_slice_vars

x_slices ==
  /\ sm_pc = "x"
  /\ SliceLoop("x", 0, "y")

y_slices ==
  /\ sm_pc = "y"
  /\ SliceLoop("y", slices_per_axis, "z")

z_slices ==
  /\ sm_pc = "z"
  /\ SliceLoop("z", slices_per_axis * 2, "exit")

SliceNext ==
  \/ slice_map_begin
  \/ x_slices
  \/ y_slices
  \/ z_slices

Cubic == volume_shape[1] = volume_shape[2] /\ volume_shape[2] = volume_shape[3]

\* C14: slice_map of a cubic volume of side L returns 3 * s images, image
\* number a * s + k (a = 0, 1, 2 for x, y, z; k = 0 .. s-1) being the plane of
\* axis a at index (k + 1) * floor(L / (s + 1)); a volume that is not cubic
\* ends in AssertionError.
C14_SlicesPerAxisInOrder ==
  sm_pc = "exit" =>
    IF Cubic
      THEN /\ sm_outcome = "returned"
           /\ Len(image_stack) = 3 * slices_per_axis
           /\ \A a \in 0..2 : \A kk \in 0..(slices_per_axis - 1) :
                image_stack[a * slices_per_axis + kk + 1] =
                  [axis |-> <<"x", "y", "z">>[a + 1],
                   index |-> (kk + 1)
                               * (volume_shape[1] \div (slices_per_axis + 1))]
      ELSE sm_outcome = "AssertionError" /\ image_stack = <<>>

\* A returned stack of 3 * 3 images of a volume of side 4.
C14_Witness ==
  /\ sm_pc = "exit"
  /\ sm_outcome = "returned"
  /\ volume_shape = <<4, 4, 4>>
  /\ slices_per_axis = 3
  /\ Len(image_stack) = 9

PipelineIdle ==
  /\ pc = "idle"
  /\ stmt = 0
  /\ entry = "none"
  /\ args = <<>>
  /\ parameters_dict = <<>>
  /\ train_files = <<>>
  /\ training_data_shuffled = <<>>
  /\ fold_boundaries = <<>>
  /\ k = 0
  /\ active_training_set = <<>>
  /\ active_validation_set = <<>>
  /\ folds_used = <<>>
  /\ events = <<>>
  /\ output_files = {}
  /\ outcome = "idle"

GeneratorIdle ==
  /\ list_IDs = <<>>
  /\ batch_size = 1
  /\ shuffle = FALSE
  /\ indexes = <<>>
  /\ epoch_batches = {}

TestSplitIdle ==
  /\ file_list = <<>>
  /\ split_percent = 0
  /\ rng_state = 0
  /\ random_files = <<>>
  /\ ts_outcome = "idle"

SplitDirIdle ==
  /\ input_dir = <<>>
  /\ output_dir = {}
  /\ dir_percent = 0
  /\ sd_pc = "idle"
  /\ selected_files = <<>>
  /\ copied = <<>>
  /\ removed = 0
  /\ sd_outcome = "idle"
  /\ attempt = 0
  /\ error_fixed = FALSE
  /\ input_at_call = <<>>
  /\ first_selected = <<>>

\* The variables of test_split other than the generator, which
\* test_split_directory uses too.
TestSplitArgsIdle ==
  /\ file_list = <<>>
  /\ split_percent = 0
  /\ random_files = <<>>
  /\ ts_outcome = "idle"

RepeatIdle ==
  /\ calls = 0
  /\ first_call = <<>>
  /\ other_state = FALSE

LabelsIdle ==
  /\ phase_structs = <<>>
  /\ lst_files = <<>>
  /\ cc_original_dict = <<>>
  /\ cc_inverse_dict = <<>>
  /\ cc_next = 0
  /\ cc_results = <<>>
  /\ ai_training = <<>>
  /\ ai_labels = {}
  /\ pt_pc = "idle"
  /\ pt_outcome = "idle"

SliceIdle ==
  /\ volume_shape = <<>>
  /\ slices_per_axis = 0
  /\ image_stack = <<>>
  /\ slice = 0
  /\ sm_pc = "idle"
  /\ sm_outcome = "idle"

EvaluateIdle ==
  /\ test_files = <<>>
  /\ labels_db = <<>>
  /\ scores = <<>>
  /\ predictions = <<>>
  /\ by_structure = <<>>
  /\ ev_pc = "idle"

InitEvaluate ==
  /\ EvaluateInit
  /\ PipelineIdle
  /\ GeneratorIdle
  /\ TestSplitIdle
  /\ SplitDirIdle
  /\ RepeatIdle
  /\ LabelsIdle
  /\ SliceIdle

SpecEvaluate == InitEvaluate /\ [][EvaluateNext]_vars

InitSplitDir ==
  /\ SplitDirInit
  /\ PipelineIdle
  /\ GeneratorIdle
  /\ TestSplitArgsIdle
  /\ EvaluateIdle
  /\ RepeatIdle
  /\ LabelsIdle
  /\ SliceIdle

SpecSplitDir == InitSplitDir /\ [][SplitDirNext]_vars

InitTestSplit ==
  /\ TestSplitInit
  /\ PipelineIdle
  /\ GeneratorIdle
  /\ SplitDirIdle
  /\ EvaluateIdle
  /\ RepeatIdle
  /\ LabelsIdle
  /\ SliceIdle

SpecTestSplit == InitTestSplit /\ [][TestSplitNext]_vars

InitPipeline ==
  /\ PipelineInit
  /\ GeneratorIdle
  /\ TestSplitIdle
  /\ SplitDirIdle
  /\ EvaluateIdle
  /\ RepeatIdle
  /\ LabelsIdle
  /\ SliceIdle

SpecPipeline == InitPipeline /\ [][PipelineNext]_vars

InitGenerator ==
  /\ GeneratorInit
  /\ PipelineIdle
  /\ TestSplitIdle
  /\ SplitDirIdle
  /\ EvaluateIdle
  /\ RepeatIdle
  /\ LabelsIdle
  /\ SliceIdle

SpecGenerator == InitGenerator /\ [][GeneratorNext]_vars

InitRepeat ==
  /\ RepeatInit
  /\ PipelineIdle
  /\ GeneratorIdle
  /\ SplitDirIdle
  /\ EvaluateIdle
  /\ LabelsIdle
  /\ SliceIdle

SpecRepeat == InitRepeat /\ [][RepeatNext]_vars

InitLabels ==
  /\ LabelsInit
  /\ PipelineIdle
  /\ GeneratorIdle
  /\ TestSplitIdle
  /\ SplitDirIdle
  /\ EvaluateIdle
  /\ RepeatIdle
  /\ SliceIdle

SpecLabels == InitLabels /\ [][LabelsNext]_vars

InitSlice ==
  /\ SliceInit
  /\ PipelineIdle
  /\ GeneratorIdle
  /\ TestSplitIdle
  /\ SplitDirIdle
  /\ EvaluateIdle
  /\ RepeatIdle
  /\ LabelsIdle

SpecSlice == InitSlice /\ [][SliceNext]_vars

====
